---- MODULE Spec2Model ----
(***************************************************************************)
(* Model of modbus_io.c, the MODBUS I/O plugin of grblHAL: validation of   *)
(* the two M-codes (M101 = one transaction, M102 = poll until value),      *)
(* frame construction, blocking dispatch, the two transport callbacks and  *)
(* the polling loop.                                                       *)
(*                                                                         *)
(* Floats are modelled as records [nan, m]: m is the value in thousandths  *)
(* (so 0.5 is m = 500 and a timeout of 0.1 s is m = 100); every comparison *)
(* with a NaN is false, as in C.                                           *)
(***************************************************************************)
EXTENDS Integers, Sequences, FiniteSets, TLC

VARIABLES
    pc,          \* position of the host/plugin control flow
    parsed,      \* the block as the host parser produced it (before mbio_validate)
    gc_block,    \* parser_block_t handed to validate/execute
    state,       \* status_code_t returned by the last mbio_validate
    tx,          \* modbus_message_t handed to modbus_send by the last dispatch
    rx,          \* completion the transport delivers for tx (in flight / handled)
    var5399,     \* sys.var5399, the shared result slot
    cold_start,  \* sys.cold_start
    abort,       \* sys.abort
    raised,      \* alarms raised directly (system_raise_alarm) since the block was parsed
    fg_queue,    \* tasks queued with protocol_enqueue_foreground_task, not yet run
    messages,    \* report_message/report_warning texts emitted since the block was parsed
    poll,        \* locals and bookkeeping of mbio_Wait_ReadDiscreteInputs
    hal_user_mcode,  \* hal.user_mcode: the handler set the host calls
    user_mcode,      \* the file-static user_mcode: the captured previous handler set
    mcode_check      \* what hal.user_mcode.check returned for the block's M-code

vars == <<pc, parsed, gc_block, state, tx, rx, var5399, cold_start, abort, raised,
          fg_queue, messages, poll, hal_user_mcode, user_mcode, mcode_check>>

----------------------------------------------------------------------------
\* Floats.

Scale == 1000

NaN == [nan |-> TRUE, m |-> 0]

Num(n) == [nan |-> FALSE, m |-> n * Scale]

Milli(n) == [nan |-> FALSE, m |-> n]

\* a < n and a > n for a float a and an integer literal n
FLt(a, n) == ~a.nan /\ a.m < n * Scale

FGt(a, n) == ~a.nan /\ a.m > n * Scale

\* a != (float)n
FNe(a, n) == a.nan \/ a.m # n * Scale

isintf(a) == ~a.nan /\ a.m % Scale = 0

isnanf(a) == a.nan

\* (char)x, (uint16_t)x, (int32_t)x of a float: truncation toward zero
Trunc(a) == IF a.m >= 0 THEN a.m \div Scale ELSE -((-a.m) \div Scale)

----------------------------------------------------------------------------
\* Program constants.

ModBus_ReadCoils == 1
ModBus_ReadDiscreteInputs == 2
ModBus_ReadHoldingRegisters == 3
ModBus_ReadInputRegisters == 4
ModBus_WriteCoil == 5
ModBus_WriteRegister == 6

UserMCode_Generic1 == 101
UserMCode_Generic2 == 102
UserMCode_Other == 103
UserMCode_Ignore == 0

Status_OK == "Status_OK"
Status_BadNumberFormat == "Status_BadNumberFormat"
Status_GcodeValueOutOfRange == "Status_GcodeValueOutOfRange"
Status_GcodeValueWordMissing == "Status_GcodeValueWordMissing"
Status_Unhandled == "Status_Unhandled"

Off == FALSE

----------------------------------------------------------------------------
\* mbio_validate.

Words == {"d", "e", "p", "q", "r"}

\* gc_block->words.x = Off for every x in ws
Claim(b, ws) ==
    [b EXCEPT !.words = [w \in Words |-> IF w \in ws THEN Off ELSE b.words[w]]]

\* The structural checks of M101 (lines 241-259): each one can only set
\* Status_BadNumberFormat.
StructuralA(b) ==
    LET s0 == Status_GcodeValueWordMissing
        s1 == IF ~b.words.d \/ ~isintf(b.values.d) THEN Status_BadNumberFormat ELSE s0
        s2 == IF ~b.words.e \/ ~isintf(b.values.e) THEN Status_BadNumberFormat ELSE s1
        s3 == IF ~b.words.p \/ ~isintf(b.values.p) THEN Status_BadNumberFormat ELSE s2
        s4 == IF b.words.q /\ ~isintf(b.values.q) THEN Status_BadNumberFormat ELSE s3
    IN  s4

\* Mutant: the upper bound of Q is not tested.
OutOfRangeA_NoQMax(b) ==
    \/ FLt(b.values.d, 0) \/ FGt(b.values.d, 247)
    \/ /\ FNe(b.values.e, ModBus_ReadDiscreteInputs)
       /\ FNe(b.values.e, ModBus_ReadInputRegisters)
       /\ FNe(b.values.e, ModBus_WriteCoil)
       /\ FNe(b.values.e, ModBus_WriteRegister)
       /\ FNe(b.values.e, ModBus_ReadHoldingRegisters)
       /\ FNe(b.values.e, ModBus_ReadCoils)
    \/ FLt(b.values.p, 1) \/ FGt(b.values.p, 9999)
    \/ FLt(b.values.q, 0)

\* The range test of M101 (lines 264-272).
OutOfRangeA(b) ==
    \/ FLt(b.values.d, 0) \/ FGt(b.values.d, 247)
    \/ /\ FNe(b.values.e, ModBus_ReadDiscreteInputs)
       /\ FNe(b.values.e, ModBus_ReadInputRegisters)
       /\ FNe(b.values.e, ModBus_WriteCoil)
       /\ FNe(b.values.e, ModBus_WriteRegister)
       /\ FNe(b.values.e, ModBus_ReadHoldingRegisters)
       /\ FNe(b.values.e, ModBus_ReadCoils)
    \/ FLt(b.values.p, 1) \/ FGt(b.values.p, 9999)
    \/ FLt(b.values.q, 0) \/ FGt(b.values.q, 65535)

\* switch ((char)values.e): functions 2 and 4 get values.q = 1.0f
ForceCount(b) ==
    IF Trunc(b.values.e) \in {ModBus_ReadDiscreteInputs, ModBus_ReadInputRegisters}
    THEN [b EXCEPT !.values.q = Num(1)]
    ELSE b

\* Mutant: the range test runs whatever the structural checks found.
ValidateA_Unguarded(b) ==
    IF OutOfRangeA(b)
    THEN [state |-> Status_GcodeValueOutOfRange,
          block |-> Claim(b, {"d", "e", "p", "q"})]
    ELSE IF StructuralA(b) # Status_BadNumberFormat
         THEN [state |-> Status_OK,
               block |-> Claim(ForceCount(b), {"d", "e", "p", "q"})]
         ELSE [state |-> StructuralA(b), block |-> b]

\* ValidateA claiming the words in the success branch only.
ValidateA_ClaimOnSuccess(b) ==
    LET s == StructuralA(b) IN
    IF s # Status_BadNumberFormat
    THEN IF OutOfRangeA(b)
         THEN [state |-> Status_GcodeValueOutOfRange, block |-> b]
         ELSE [state |-> Status_OK,
               block |-> Claim(ForceCount(b), {"d", "e", "p", "q"})]
    ELSE [state |-> s, block |-> b]

ValidateA(b) ==
    LET s == StructuralA(b) IN
    IF s # Status_BadNumberFormat
    THEN IF OutOfRangeA(b)
         THEN [state |-> Status_GcodeValueOutOfRange,
               block |-> Claim(b, {"d", "e", "p", "q"})]
         ELSE [state |-> Status_OK,
               block |-> Claim(ForceCount(b), {"d", "e", "p", "q"})]
    ELSE [state |-> s, block |-> b]

\* The structural checks of M102 (lines 299-316).
StructuralB(b) ==
    LET s0 == Status_GcodeValueWordMissing
        s1 == IF ~b.words.d \/ ~isintf(b.values.d) THEN Status_BadNumberFormat ELSE s0
        s2 == IF ~b.words.p \/ ~isintf(b.values.p) THEN Status_BadNumberFormat ELSE s1
        s3 == IF ~b.words.q \/ ~isintf(b.values.q) THEN Status_BadNumberFormat ELSE s2
        s4 == IF ~b.words.r \/ isnanf(b.values.r) THEN Status_BadNumberFormat ELSE s3
    IN  s4

\* Mutant: the timeout's upper limit is exclusive.
OutOfRangeB_StrictR(b) ==
    \/ FLt(b.values.d, 0) \/ FGt(b.values.d, 247)
    \/ FLt(b.values.p, 1) \/ FGt(b.values.p, 9999)
    \/ FLt(b.values.q, 0) \/ FGt(b.values.q, 1)
    \/ FLt(b.values.r, 0) \/ ~FLt(b.values.r, 3600)

\* Mutant: the device address has no upper limit.
OutOfRangeB_NoDMax(b) ==
    \/ FLt(b.values.d, 0)
    \/ FLt(b.values.p, 1) \/ FGt(b.values.p, 9999)
    \/ FLt(b.values.q, 0) \/ FGt(b.values.q, 1)
    \/ FLt(b.values.r, 0) \/ FGt(b.values.r, 3600)

\* The range test of M102 (lines 321-327).
OutOfRangeB(b) ==
    \/ FLt(b.values.d, 0) \/ FGt(b.values.d, 247)
    \/ FLt(b.values.p, 1) \/ FGt(b.values.p, 9999)
    \/ FLt(b.values.q, 0) \/ FGt(b.values.q, 1)
    \/ FLt(b.values.r, 0) \/ FGt(b.values.r, 3600)

ValidateB(b) ==
    LET s == StructuralB(b) IN
    IF s # Status_BadNumberFormat
    THEN [state |-> IF OutOfRangeB(b) THEN Status_GcodeValueOutOfRange ELSE Status_OK,
          block |-> Claim(b, {"d", "p", "q", "r"})]
    ELSE [state |-> s, block |-> b]

\* Handler sets (user_mcode_ptrs_t): three function pointers.  The static
\* user_mcode (line 38) starts zero-initialised: all three null.
NullHandlers == [check |-> "null", validate |-> "null", execute |-> "null"]

\* The handler set another plugin installed before mbio_init ran.
PrevHandlers == [check |-> "prev_check", validate |-> "prev_validate",
                 execute |-> "prev_execute"]

MbioHandlers == [check |-> "mbio_check", validate |-> "mbio_validate",
                 execute |-> "mbio_execute"]

\* mbio_init: hal.user_mcode gets the three functions of this file; no
\* statement copies the previous hal.user_mcode into user_mcode.
mbio_init(hal, um) == [hal_user_mcode |-> MbioHandlers, user_mcode |-> um]

\* The previously installed handler's check, were it called: it handles the
\* M-code.
PrevCheck(mcode) == mcode

\* The previously installed handler's validate, were it called.
PrevValidate(b) == [state |-> "Status_Prev", block |-> b]

mbio_check(mcode) ==
    IF mcode = UserMCode_Generic1 \/ mcode = UserMCode_Generic2
    THEN mcode
    ELSE IF user_mcode.check # "null" THEN PrevCheck(mcode) ELSE UserMCode_Ignore

\* mbio_execute for an M-code that is neither M101 nor M102: whether the
\* previous handler's execute is called.
ExecuteForwards(b) ==
    /\ b.user_mcode \notin {UserMCode_Generic1, UserMCode_Generic2}
    /\ user_mcode.execute # "null"

mbio_validate(b) ==
    LET r == CASE b.user_mcode = UserMCode_Generic1 -> ValidateA(b)
               [] b.user_mcode = UserMCode_Generic2 -> ValidateB(b)
               [] OTHER -> [state |-> Status_Unhandled, block |-> b]
    IN  IF r.state = Status_Unhandled /\ user_mcode.validate # "null"
        THEN PrevValidate(b)
        ELSE r

----------------------------------------------------------------------------
\* Frames (modbus_message_t) and the frame builders.

MBIO_Command == "MBIO_Command"

ToU8(n) == n % 256

ToU16(n) == n % 65536

MODBUS_SET_MSB16(v) == (v \div 256) % 256

MODBUS_SET_LSB16(v) == v % 256

Frame(device_address, function, register_address, value, rxlen) ==
    [context |-> MBIO_Command,
     crc_check |-> TRUE,
     adu |-> <<ToU8(device_address), function,
               MODBUS_SET_MSB16(register_address), MODBUS_SET_LSB16(register_address),
               MODBUS_SET_MSB16(value), MODBUS_SET_LSB16(value)>>,
     tx_length |-> 8,
     rx_length |-> rxlen]

mbio_ModBus_ReadCoils(device_address, register_address, value) ==
    Frame(device_address, ModBus_ReadCoils, register_address, value, 6)

mbio_ModBus_WriteCoil(device_address, register_address, value) ==
    Frame(device_address, ModBus_WriteCoil, register_address, value, 8)

mbio_ModBus_ReadDiscreteInputs(device_address, register_address, value) ==
    Frame(device_address, ModBus_ReadDiscreteInputs, register_address, value, 6)

\* adu[4], adu[5] are the literals 0x00, 0x01
mbio_ModBus_ReadHoldingRegisters(device_address, register_address) ==
    Frame(device_address, ModBus_ReadHoldingRegisters, register_address, 1, 7)

mbio_ModBus_ReadInputRegisters(device_address, register_address, value) ==
    Frame(device_address, ModBus_ReadInputRegisters, register_address, value, 7)

mbio_ModBus_WriteRegister(device_address, register_address, value) ==
    Frame(device_address, ModBus_WriteRegister, register_address, value, 8)

NoMsg == [kind |-> "none"]

\* adu[i] of a message, C indexing
Adu(msg, i) == msg.adu[i + 1]

----------------------------------------------------------------------------
\* mbio_execute: the locals computed on entry and the M101 dispatch.

\* char device_address = (char)gc_block->values.d
DeviceAddress(b) == ToU8(Trunc(b.values.d))

\* RegisterAddress without the conversion to a zero-based index.
RegisterAddress_NoOffset(b) == ToU16(Trunc(b.values.p))

\* uint16_t register_address = (uint16_t)gc_block->values.p - 1
RegisterAddress(b) == ToU16(ToU16(Trunc(b.values.p)) - 1)

\* ValueA switching the coil on for Q = 1 only.
ValueA_OnlyOne(b) ==
    LET value == ToU16(Trunc(b.values.q)) IN
    IF Trunc(b.values.e) = 5
    THEN (IF value = 1 THEN 65280 ELSE 0)
    ELSE value

\* uint16_t value = (uint16_t)values.q; function 5: value > 0 ? 0xff00 : 0
ValueA(b) ==
    LET value == ToU16(Trunc(b.values.q)) IN
    IF Trunc(b.values.e) = 5
    THEN (IF value > 0 THEN 65280 ELSE 0)
    ELSE value

\* ExecuteA passing the caller's value as the count of a holding-register
\* read, as it does for the coil read.
ExecuteA_HoldingUsesQ(b) ==
    LET e == Trunc(b.values.e)
        d == DeviceAddress(b)
        r == RegisterAddress(b)
    IN  CASE e = ModBus_ReadCoils -> mbio_ModBus_ReadCoils(d, r, ValueA(b))
          [] e = ModBus_ReadDiscreteInputs -> mbio_ModBus_ReadDiscreteInputs(d, r, 1)
          [] e = ModBus_ReadInputRegisters -> mbio_ModBus_ReadInputRegisters(d, r, 1)
          [] e = ModBus_ReadHoldingRegisters ->
                Frame(d, ModBus_ReadHoldingRegisters, r, ValueA(b), 7)
          [] e = ModBus_WriteCoil -> mbio_ModBus_WriteCoil(d, r, ValueA(b))
          [] e = ModBus_WriteRegister -> mbio_ModBus_WriteRegister(d, r, ValueA(b))
          [] OTHER -> NoMsg

\* The frame the M101 branch hands to modbus_send.
ExecuteA(b) ==
    LET e == Trunc(b.values.e)
        d == DeviceAddress(b)
        r == RegisterAddress(b)
    IN  CASE e = ModBus_ReadCoils -> mbio_ModBus_ReadCoils(d, r, ValueA(b))
          [] e = ModBus_ReadDiscreteInputs -> mbio_ModBus_ReadDiscreteInputs(d, r, 1)
          [] e = ModBus_ReadInputRegisters -> mbio_ModBus_ReadInputRegisters(d, r, 1)
          [] e = ModBus_ReadHoldingRegisters -> mbio_ModBus_ReadHoldingRegisters(d, r)
          [] e = ModBus_WriteCoil -> mbio_ModBus_WriteCoil(d, r, ValueA(b))
          [] e = ModBus_WriteRegister -> mbio_ModBus_WriteRegister(d, r, ValueA(b))
          [] OTHER -> NoMsg

----------------------------------------------------------------------------
\* The transport's completions and the two callbacks.

Status_ExpressionInvalidResult == "Status_ExpressionInvalidResult"
Status_GCodeTimeout == "Status_GCodeTimeout"

\* Data bytes a device answers a read with: adu[3] for the one-byte reads,
\* <<adu[3], adu[4]>> for the register reads.
BitData == {0, 1, 3}

RegData == {<<0, 42>>, <<1, 0>>}

\* The completions modbus_send can deliver for request msg: the response
\* echoes the device address and the function code and carries the request's
\* context; a write is acknowledged by an echo of the request.
Packets(msg) ==
    LET fn == Adu(msg, 1)
        reply(d3, d4) ==
            [kind |-> "packet", context |-> msg.context,
             adu |-> <<Adu(msg, 0), fn, (IF fn \in {3, 4} THEN 2 ELSE 1), d3, d4>>]
    IN  CASE fn \in {ModBus_ReadCoils, ModBus_ReadDiscreteInputs} ->
                 {reply(b, 0) : b \in BitData}
          [] fn \in {ModBus_ReadHoldingRegisters, ModBus_ReadInputRegisters} ->
                 {reply(w[1], w[2]) : w \in RegData}
          [] OTHER ->
                 {[kind |-> "packet", context |-> msg.context,
                   adu |-> <<Adu(msg, 0), fn, Adu(msg, 2), Adu(msg, 3), Adu(msg, 4)>>]}

Exception == [kind |-> "exception", code |-> 2]

\* msg->adu[0] & 0x80
ErrorBit(msg) == (Adu(msg, 0) \div 128) % 2 = 1

\* modbus_read_u16 reading the low byte first.
modbus_read_u16_LittleEndian(msg, i) == Adu(msg, i) + Adu(msg, i + 1) * 256

modbus_read_u16(msg, i) == Adu(msg, i) * 256 + Adu(msg, i + 1)

\* mbio_rx_packet: the value it leaves in sys.var5399 (v is the value before)
\* and whether it reports the "MODBUS ERROR" warning.
mbio_rx_packet(msg, v) ==
    IF ~ErrorBit(msg)
    THEN [var5399 |->
              IF msg.context = MBIO_Command
              THEN CASE Adu(msg, 1) = ModBus_ReadDiscreteInputs -> Adu(msg, 3) % 2
                     [] Adu(msg, 1) = ModBus_ReadCoils -> Adu(msg, 3)
                     [] Adu(msg, 1) \in {ModBus_ReadInputRegisters,
                                         ModBus_ReadHoldingRegisters} ->
                            modbus_read_u16(msg, 3)
                     [] OTHER -> v
              ELSE v,
          warn |-> FALSE]
    ELSE [var5399 |-> v, warn |-> TRUE]

\* Mutant: the alarm is raised directly whatever the start-up phase.
mbio_failed_NoColdStart(cold, al, q) ==
    [raised |-> al \cup {Status_ExpressionInvalidResult},
     fg_queue |-> Append(q, "report_warning")]

\* mbio_failed: the alarms raised directly and the foreground queue after it.
mbio_failed(cold, al, q) ==
    IF cold
    THEN [raised |-> al, fg_queue |-> Append(q, "mbio_raise_alarm")]
    ELSE [raised |-> al \cup {Status_ExpressionInvalidResult},
          fg_queue |-> Append(q, "report_warning")]

\* mbio_rx_exception(code, context) only calls mbio_failed.
mbio_rx_exception(cold, al, q) == mbio_failed(cold, al, q)

----------------------------------------------------------------------------
\* mbio_Wait_ReadDiscreteInputs.

\* The step duration in ms: the loop sleeps hal.delay_ms(50) per step.
MBIO_WAIT_STEP == 50

\* ceilf(x / y) for non-negative integers
CeilDiv(x, y) == (x + y - 1) \div y

\* Mutant: two extra steps instead of one.
InitialDelay_PlusTwo(timeout) ==
    CeilDiv((1000 \div MBIO_WAIT_STEP) * timeout.m, Scale) + 2

\* uint_fast16_t delay = (uint_fast16_t)ceilf((1000.0f / MBIO_WAIT_STEP) * timeout) + 1
\* (the polls explored stay far below 2^16 steps, so the counter's width
\* plays no part)
InitialDelay(timeout) == CeilDiv((1000 \div MBIO_WAIT_STEP) * timeout.m, Scale) + 1

NoPoll == [active |-> "none"]

\* Entry of the function up to the first blocking send: the locals, and the
\* bookkeeping of this invocation (reads = transactions issued, waits = wait
\* steps performed, entry_abort = sys.abort on entry, fresh = a read of this
\* invocation was answered by a response whose data bit is the target,
\* ab_reads / ab_waits = reads issued / wait steps begun with sys.abort set).
PollEnter(value, timeout, ab) ==
    [active |-> "running", value |-> value, ret |-> -1,
     delay |-> InitialDelay(timeout),
     reads |-> 1, waits |-> 0, entry_abort |-> ab, fresh |-> FALSE,
     ab_reads |-> (IF ab THEN 1 ELSE 0), ab_waits |-> 0]

\* Mutant: the loop condition is --delay alone, sys.abort is not looked at.
PollStep_NoAbort(p, v, ab) ==
    IF v = p.value
    THEN [p EXCEPT !.ret = p.value, !.active = "returned"]
    ELSE IF p.delay # 0
         THEN LET w == [p EXCEPT !.waits = @ + 1, !.delay = @ - 1] IN
              IF w.delay # 0
              THEN [w EXCEPT !.reads = @ + 1]
              ELSE [w EXCEPT !.active = "returned"]
         ELSE [p EXCEPT !.active = "returned"]

\* Mutant: the wait step comes before the comparison.
PollStep_WaitFirst(p, v, ab) ==
    IF p.delay # 0
    THEN LET w == [p EXCEPT !.waits = @ + 1, !.delay = @ - 1] IN
         IF v = p.value
         THEN [w EXCEPT !.ret = p.value, !.active = "returned"]
         ELSE IF w.delay # 0 /\ ~ab
              THEN [w EXCEPT !.reads = @ + 1]
              ELSE [w EXCEPT !.active = "returned"]
    ELSE [p EXCEPT !.active = "returned"]

\* The loop body after the blocking send returned (lines 195-207), up to the
\* next send or the return: v is sys.var5399, ab is sys.abort as the wait
\* step (protocol_execute_realtime, hal.delay_ms) leaves it.
PollStep(p, v, ab) ==
    IF v = p.value
    THEN [p EXCEPT !.ret = p.value, !.active = "returned"]
    ELSE IF p.delay # 0
         THEN LET w == [p EXCEPT !.waits = @ + 1, !.delay = @ - 1] IN
              IF w.delay # 0 /\ ~ab
              THEN [w EXCEPT !.reads = @ + 1]
              ELSE [w EXCEPT !.active = "returned"]
         ELSE [p EXCEPT !.active = "returned"]

\* Whether the loop body performs its wait step.
PollWaits(p, v) == v # p.value /\ p.delay # 0

\* Mutant: a return value of 0 counts as a failure too.
TimeoutAlarm_LeqZero(ret, al) ==
    IF ret <= 0 THEN al \cup {Status_GCodeTimeout} ELSE al

\* mbio_execute after the poll returned: if (ret < 0) system_raise_alarm(Status_GCodeTimeout)
TimeoutAlarm(ret, al) ==
    IF ret < 0 THEN al \cup {Status_GCodeTimeout} ELSE al

----------------------------------------------------------------------------
\* Parameter words the host parser can hand over.  A word that is absent
\* leaves its value at the zero the parser initialises the block with; a word
\* that is present carries any float, NaN included.

Absent == [w |-> FALSE, v |-> Num(0)]

Word(x) == [w |-> TRUE, v |-> x]

Present(S) == {Word(x) : x \in S}

Block(mcode, d, e, p, q, r) ==
    [user_mcode |-> mcode,
     words |-> [d |-> d.w, e |-> e.w, p |-> p.w, q |-> q.w, r |-> r.w],
     values |-> [d |-> d.v, e |-> e.v, p |-> p.v, q |-> q.v, r |-> r.v]]

DWords == {Absent} \cup Present({Num(-1), Num(0), Num(247), Num(248), Milli(500), NaN})

EWords == {Absent} \cup Present({Num(n) : n \in 0..7} \cup {Milli(2500)})

PWords == {Absent} \cup Present({Num(0), Num(1), Num(9999), Num(10000), Milli(1500)})

QWords == {Absent} \cup Present({Num(-1), Num(0), Num(1), Num(2), Num(65535),
                                 Num(65536), Milli(500), NaN})

RWords == {Absent} \cup Present({NaN, Milli(-1), Num(0), Milli(100), Num(3600),
                                 Milli(3600001)})

\* Every block the validation is checked on.
AllBlocks ==
    {Block(UserMCode_Generic1, d, e, p, q, Absent) :
        d \in DWords, e \in EWords, p \in PWords, q \in QWords}
    \cup
    {Block(UserMCode_Generic2, d, Absent, p, q, r) :
        d \in DWords, p \in PWords, q \in QWords, r \in RWords}
    \cup
    {Block(UserMCode_Other, Absent, Absent, Absent, Absent, Absent)}

\* Longest poll, in wait steps, the execution is explored for.
MaxSteps == 2

\* Length of the host's foreground task queue.
MaxQueue == 2

PollTimeouts == {Milli(MBIO_WAIT_STEP * k) : k \in 0..MaxSteps} \cup {Milli(20)}

\* The blocks the execution is explored for: every function code, a device
\* address below and one above 127, both ends of the register range, and a
\* few blocks the validation rejects.
ExecBlocks ==
    {Block(UserMCode_Generic1, d, e, p, q, Absent) :
        d \in Present({Num(1), Num(200)}),
        e \in Present({Num(n) : n \in 1..6}),
        p \in Present({Num(1), Num(9999)}),
        q \in {Absent} \cup Present({Num(0), Num(2), Num(65535)})}
    \cup
    {Block(UserMCode_Generic2, d, Absent, p, q, r) :
        d \in Present({Num(1), Num(200)}),
        p \in Present({Num(1)}),
        q \in Present({Num(0), Num(1)}),
        r \in Present(PollTimeouts)}
    \cup
    {Block(UserMCode_Generic1, Word(Num(1)), Word(Num(7)), Absent, Absent, Absent),
     Block(UserMCode_Generic2, Word(Num(1)), Absent, Word(Num(1)), Word(Num(2)),
           Word(Num(0))),
     Block(UserMCode_Other, Absent, Absent, Absent, Absent, Absent)}

----------------------------------------------------------------------------
\* The state machine.

\* The state before mbio_init runs: another plugin's handler set is installed.
Init ==
    /\ pc = "boot"
    /\ hal_user_mcode = PrevHandlers
    /\ user_mcode = NullHandlers
    /\ mcode_check = UserMCode_Ignore
    /\ parsed = Block(UserMCode_Other, Absent, Absent, Absent, Absent, Absent)
    /\ gc_block = parsed
    /\ state = "none"
    /\ tx = NoMsg
    /\ rx = NoMsg
    /\ var5399 = 0
    /\ cold_start = TRUE
    /\ abort = FALSE
    /\ raised = {}
    /\ fg_queue = <<>>
    /\ messages = {}
    /\ poll = NoPoll

\* The host calls mbio_init.
MbioInit ==
    /\ pc = "boot"
    /\ LET r == mbio_init(hal_user_mcode, user_mcode) IN
        /\ hal_user_mcode' = r.hal_user_mcode
        /\ user_mcode' = r.user_mcode
    /\ pc' = "idle"
    /\ UNCHANGED <<mcode_check, parsed, gc_block, state, tx, rx, var5399, cold_start,
                   abort, raised, fg_queue, messages, poll>>

\* The host parser reads the next block and calls hal.user_mcode.check on its
\* M-code; a block whose M-code is ignored is not validated nor executed.
ParseBlock ==
    /\ pc = "idle"
    /\ parsed' \in ExecBlocks
    /\ gc_block' = parsed'
    /\ mcode_check' = mbio_check(parsed'.user_mcode)
    /\ pc' = IF mcode_check' = UserMCode_Ignore THEN "done" ELSE "parsed"
    /\ raised' = {}
    /\ messages' = {}
    /\ UNCHANGED <<hal_user_mcode, user_mcode,
                   state, tx, rx, var5399, cold_start, abort, fg_queue, poll>>

\* The host calls hal.user_mcode.validate.
Validate ==
    /\ pc = "parsed"
    /\ LET r == mbio_validate(gc_block) IN
        /\ state' = r.state
        /\ gc_block' = r.block
    /\ pc' = "validated"
    /\ UNCHANGED <<hal_user_mcode, user_mcode, mcode_check,
                   parsed, tx, rx, var5399, cold_start, abort, raised, fg_queue,
                   messages, poll>>

\* A block that failed validation is not executed.
Reject ==
    /\ pc = "validated"
    /\ state # Status_OK
    /\ pc' = "done"
    /\ UNCHANGED <<hal_user_mcode, user_mcode, mcode_check,
                   parsed, gc_block, state, tx, rx, var5399, cold_start, abort,
                   raised, fg_queue, messages, poll>>

\* mbio_execute, M101: up to the blocking modbus_send.
ExecuteGeneric1 ==
    /\ pc = "validated"
    /\ state = Status_OK
    /\ gc_block.user_mcode = UserMCode_Generic1
    /\ tx' = ExecuteA(gc_block)
    /\ pc' = "sent"
    /\ UNCHANGED <<hal_user_mcode, user_mcode, mcode_check,
                   parsed, gc_block, state, rx, var5399, cold_start, abort, raised,
                   fg_queue, messages, poll>>

\* mbio_execute, M102: entry of mbio_Wait_ReadDiscreteInputs up to the first
\* blocking modbus_send.
ExecuteGeneric2 ==
    /\ pc = "validated"
    /\ state = Status_OK
    /\ gc_block.user_mcode = UserMCode_Generic2
    /\ poll' = PollEnter(Trunc(gc_block.values.q), gc_block.values.r, abort)
    /\ tx' = mbio_ModBus_ReadDiscreteInputs(DeviceAddress(gc_block),
                                            RegisterAddress(gc_block), 1)
    /\ pc' = "sent"
    /\ UNCHANGED <<hal_user_mcode, user_mcode, mcode_check,
                   parsed, gc_block, state, rx, var5399, cold_start, abort, raised,
                   fg_queue, messages>>

\* Where control is once the blocking send returns.
AfterSend == IF poll.active = "running" THEN "poll" ELSE "done"

\* The transport completes the transaction through on_rx_packet.
RxPacket ==
    /\ pc = "sent"
    /\ \E msg \in Packets(tx) :
        LET r == mbio_rx_packet(msg, var5399) IN
        /\ rx' = msg
        /\ var5399' = r.var5399
        /\ messages' = IF r.warn THEN messages \cup {"MODBUS ERROR"} ELSE messages
        /\ poll' = IF poll.active = "running"
                   THEN [poll EXCEPT !.fresh = @ \/ Adu(msg, 3) % 2 = poll.value]
                   ELSE poll
    /\ pc' = AfterSend
    /\ UNCHANGED <<hal_user_mcode, user_mcode, mcode_check,
                   parsed, gc_block, state, tx, cold_start, abort, raised, fg_queue>>

\* The transport completes the transaction through on_rx_exception.
RxException ==
    /\ pc = "sent"
    /\ Len(fg_queue) < MaxQueue
    /\ LET r == mbio_rx_exception(cold_start, raised, fg_queue) IN
        /\ raised' = r.raised
        /\ fg_queue' = r.fg_queue
    /\ rx' = Exception
    /\ pc' = AfterSend
    /\ UNCHANGED <<hal_user_mcode, user_mcode, mcode_check,
                   parsed, gc_block, state, tx, var5399, cold_start, abort, messages,
                   poll>>

\* The rest of the loop body of mbio_Wait_ReadDiscreteInputs after a send
\* returned: the comparison, the wait step (during which the host may set
\* sys.abort), the loop condition, and then either the next send or the
\* return into mbio_execute, which raises the timeout alarm when ret < 0.
PollCheck ==
    /\ pc = "poll"
    /\ \E ab \in (IF PollWaits(poll, var5399) THEN {abort, TRUE} ELSE {abort}) :
        LET p == PollStep(poll, var5399, ab) IN
        /\ poll' = [p EXCEPT
                        !.ab_waits = @ + (IF abort /\ p.waits > poll.waits
                                          THEN 1 ELSE 0),
                        !.ab_reads = @ + (IF ab /\ p.reads > poll.reads
                                          THEN 1 ELSE 0)]
        /\ abort' = ab
        /\ IF p.active = "running"
           THEN /\ tx' = mbio_ModBus_ReadDiscreteInputs(DeviceAddress(gc_block),
                                                        RegisterAddress(gc_block), 1)
                /\ pc' = "sent"
                /\ raised' = raised
           ELSE /\ tx' = tx
                /\ pc' = "done"
                /\ raised' = TimeoutAlarm(p.ret, raised)
    /\ UNCHANGED <<hal_user_mcode, user_mcode, mcode_check,
                   parsed, gc_block, state, rx, var5399, cold_start, fg_queue,
                   messages>>

NoBlock == Block(UserMCode_Other, Absent, Absent, Absent, Absent, Absent)

\* mbio_execute has returned (or the block was rejected): the host goes back
\* to its main loop; the block, the frame and the loop's locals are gone.
Complete ==
    /\ pc = "done"
    /\ pc' = "idle"
    /\ parsed' = NoBlock
    /\ gc_block' = NoBlock
    /\ state' = "none"
    /\ tx' = NoMsg
    /\ rx' = NoMsg
    /\ poll' = NoPoll
    /\ mcode_check' = UserMCode_Ignore
    /\ UNCHANGED <<hal_user_mcode, user_mcode,
                   var5399, cold_start, abort, raised, fg_queue, messages>>

\* The host's main loop runs the oldest queued foreground task.
ForegroundTask ==
    /\ pc = "idle"
    /\ fg_queue # <<>>
    /\ fg_queue' = Tail(fg_queue)
    /\ raised' = IF Head(fg_queue) = "mbio_raise_alarm"
                 THEN raised \cup {Status_ExpressionInvalidResult}
                 ELSE raised
    /\ messages' = IF Head(fg_queue) = "report_warning"
                   THEN messages \cup {"What's this?"}
                   ELSE messages
    /\ UNCHANGED <<hal_user_mcode, user_mcode, mcode_check,
                   pc, parsed, gc_block, state, tx, rx, var5399, cold_start, abort,
                   poll>>

\* The host leaves its cold-start phase.
ColdStartDone ==
    /\ pc = "idle"
    /\ cold_start
    /\ cold_start' = FALSE
    /\ UNCHANGED <<hal_user_mcode, user_mcode, mcode_check,
                   pc, parsed, gc_block, state, tx, rx, var5399, abort, raised,
                   fg_queue, messages, poll>>

\* The host sets its abort signal, or clears it on reset.
ToggleAbort ==
    /\ pc = "idle"
    /\ abort' = ~abort
    /\ UNCHANGED <<hal_user_mcode, user_mcode, mcode_check,
                   pc, parsed, gc_block, state, tx, rx, var5399, cold_start, raised,
                   fg_queue, messages, poll>>

\* The host sets its abort signal while a read of the polling loop is in
\* flight (the blocking send runs the host's realtime handling).
SetAbort ==
    /\ pc = "sent"
    /\ poll.active = "running"
    /\ ~abort
    /\ abort' = TRUE
    /\ UNCHANGED <<hal_user_mcode, user_mcode, mcode_check,
                   pc, parsed, gc_block, state, tx, rx, var5399, cold_start, raised,
                   fg_queue, messages, poll>>

Next ==
    \/ MbioInit
    \/ ParseBlock
    \/ Validate
    \/ Reject
    \/ ExecuteGeneric1
    \/ ExecuteGeneric2
    \/ RxPacket
    \/ RxException
    \/ PollCheck
    \/ Complete
    \/ ForegroundTask
    \/ ColdStartDone
    \/ ToggleAbort
    \/ SetAbort

Spec == Init /\ [][Next]_vars

\* The transport completes every blocking send, and the polling loop, once a
\* send has returned, runs on to its next send or to its return.
SpecFair ==
    Spec /\ WF_vars(RxPacket \/ RxException) /\ WF_vars(PollCheck)

\* Validation alone, on every block of AllBlocks.
InitV ==
    /\ pc = "parsed"
    /\ parsed \in AllBlocks
    /\ gc_block = parsed
    /\ state = "none"
    /\ tx = NoMsg
    /\ rx = NoMsg
    /\ var5399 = 0
    /\ cold_start = TRUE
    /\ abort = FALSE
    /\ raised = {}
    /\ fg_queue = <<>>
    /\ messages = {}
    /\ poll = NoPoll
    /\ hal_user_mcode = mbio_init(PrevHandlers, NullHandlers).hal_user_mcode
    /\ user_mcode = mbio_init(PrevHandlers, NullHandlers).user_mcode
    /\ mcode_check = mbio_check(parsed.user_mcode)
    /\ mcode_check # UserMCode_Ignore

NextV == Validate

SpecV == InitV /\ [][NextV]_vars

----------------------------------------------------------------------------
\* Properties of mbio_validate, checked under SpecV.  They are stated on
\* parsed, the block as it was before validation.

\* lo <= a <= hi for a float a that is a number
Within(a, lo, hi) == ~a.nan /\ lo * Scale <= a.m /\ a.m <= hi * Scale

IntegerValued(a) == ~a.nan /\ (a.m \div Scale) * Scale = a.m

Validated == pc = "validated"

\* The case C1 is about: M101 with D, E, P integer-valued, Q absent or
\* integer-valued, D in [0,247] and E a supported function code.
CaseA ==
    /\ parsed.user_mcode = UserMCode_Generic1
    /\ \A w \in {"d", "e", "p"} : parsed.words[w] /\ IntegerValued(parsed.values[w])
    /\ parsed.words.q => IntegerValued(parsed.values.q)
    /\ Within(parsed.values.d, 0, 247)
    /\ \E n \in 1..6 : parsed.values.e = Num(n)

ForcedCount == parsed.values.e \in {Num(2), Num(4)}

\* C1 as stated: in that case validation succeeds iff P is in [1,9999] and
\* either the function is a forced-count read (2 or 4), whatever Q was
\* supplied, or Q (when supplied) is in [0,65535].
C1_AsStated ==
    (Validated /\ CaseA) =>
        (state = Status_OK <=>
            /\ Within(parsed.values.p, 1, 9999)
            /\ \/ ForcedCount
               \/ ~parsed.words.q
               \/ Within(parsed.values.q, 0, 65535))

\* C1 amended: in that case validation succeeds iff P is in [1,9999] and the
\* Q value (0 when Q is absent) is in [0,65535], for every one of the six
\* function codes, 2 and 4 included; on success the Q value is replaced by 1
\* for functions 2 and 4 and left as supplied for the others.
C1_ValidateA ==
    (Validated /\ CaseA) =>
        /\ state = Status_OK <=>
              /\ Within(parsed.values.p, 1, 9999)
              /\ Within(parsed.values.q, 0, 65535)
        /\ state = Status_OK =>
              gc_block.values.q = IF ForcedCount THEN Num(1) ELSE parsed.values.q

\* A forced-count read with a supplied Q of 2 was accepted and Q became 1.
C1_Witness ==
    /\ Validated /\ CaseA
    /\ parsed.values.e = Num(2)
    /\ parsed.words.q /\ parsed.values.q = Num(2)
    /\ state = Status_OK
    /\ gc_block.values.q = Num(1)

\* The case C2 is about: M102 with D, P, Q integer-valued, R present and not
\* NaN, D in [0,247] and P in [1,9999].
CaseB ==
    /\ parsed.user_mcode = UserMCode_Generic2
    /\ \A w \in {"d", "p", "q"} : parsed.words[w] /\ IntegerValued(parsed.values[w])
    /\ parsed.words.r /\ ~parsed.values.r.nan
    /\ Within(parsed.values.d, 0, 247)
    /\ Within(parsed.values.p, 1, 9999)

\* C2 as stated: in that case validation succeeds iff Q is 0 or 1 and the
\* timeout R is non-negative, with no upper bound on R.
C2_AsStated ==
    (Validated /\ CaseB) =>
        (state = Status_OK <=>
            /\ parsed.values.q \in {Num(0), Num(1)}
            /\ parsed.values.r.m >= 0)

\* C2 amended: in that case validation succeeds iff Q is 0 or 1 and the
\* timeout R is in [0,3600] seconds; a timeout above 3600 is a range error.
C2_ValidateB ==
    (Validated /\ CaseB) =>
        /\ state = Status_OK <=>
              /\ parsed.values.q \in {Num(0), Num(1)}
              /\ Within(parsed.values.r, 0, 3600)
        /\ state # Status_OK => state = Status_GcodeValueOutOfRange

\* A poll with the longest accepted timeout, 3600 s, was accepted.
C2_Witness ==
    /\ Validated /\ CaseB
    /\ parsed.values.r = Num(3600)
    /\ state = Status_OK

\* A structural error of the block: a required word absent or not
\* integer-valued (R: absent or NaN), or M101's optional Q fractional.
StructuralError ==
    \/ /\ parsed.user_mcode = UserMCode_Generic1
       /\ \/ \E w \in {"d", "e", "p"} :
                 ~parsed.words[w] \/ ~IntegerValued(parsed.values[w])
          \/ parsed.words.q /\ ~IntegerValued(parsed.values.q)
    \/ /\ parsed.user_mcode = UserMCode_Generic2
       /\ \/ \E w \in {"d", "p", "q"} :
                 ~parsed.words[w] \/ ~IntegerValued(parsed.values[w])
          \/ ~parsed.words.r \/ parsed.values.r.nan

\* Some value of the block is outside its range.
SomeOutOfRange ==
    \/ ~Within(parsed.values.d, 0, 247)
    \/ ~Within(parsed.values.p, 1, 9999)
    \/ ~Within(parsed.values.q, 0, 1)

\* C3: a structural error yields the format-error status even when other
\* parameters are out of range at the same time; the range-error status is
\* returned only when every structural check passed.
C3_StructuralFirst ==
    (Validated /\ parsed.user_mcode \in {UserMCode_Generic1, UserMCode_Generic2}) =>
        /\ StructuralError => state = Status_BadNumberFormat
        /\ state = Status_GcodeValueOutOfRange => ~StructuralError

\* M101 without P and with D = 248: format error, although D is out of range.
C3_Witness ==
    /\ Validated
    /\ parsed.user_mcode = UserMCode_Generic1
    /\ ~parsed.words.p
    /\ parsed.words.d /\ parsed.values.d = Num(248)
    /\ SomeOutOfRange
    /\ state = Status_BadNumberFormat

\* C4: for M101 and M102, a device address D below 0 or above 247 never
\* validates, whatever the other words are.
C4_DeviceRange ==
    (/\ Validated
     /\ parsed.user_mcode \in {UserMCode_Generic1, UserMCode_Generic2}
     /\ parsed.words.d /\ ~parsed.values.d.nan
     /\ (parsed.values.d.m < 0 \/ parsed.values.d.m > 247 * Scale))
        => state # Status_OK

\* M102 with D = 248 and every other word valid was rejected as out of range.
C4_Witness ==
    /\ Validated
    /\ parsed.user_mcode = UserMCode_Generic2
    /\ parsed.values.d = Num(248)
    /\ parsed.values.p = Num(1) /\ parsed.values.q = Num(1) /\ parsed.values.r = Num(0)
    /\ parsed.words.p /\ parsed.words.q /\ parsed.words.r
    /\ state = Status_GcodeValueOutOfRange

----------------------------------------------------------------------------
\* Properties of the polling loop and of the callbacks, checked under Spec
\* (C5 under SpecFair).

Polling == poll.active = "running"

Returned == poll.active = "returned"

\* N = ceil(timeout / step duration): the least n with n steps >= timeout
StepsFor(timeout) ==
    CHOOSE n \in 0..(MaxSteps + 2) :
        /\ n * MBIO_WAIT_STEP >= timeout.m
        /\ \A k \in 0..(MaxSteps + 2) : k * MBIO_WAIT_STEP >= timeout.m => n <= k

\* C5: the polling loop terminates, never issues more than N + 1 read
\* transactions, N = ceil(timeout / step), and when it returns without
\* var5399 equal to the target it returns -1.
C5_PollTerminates ==
    /\ [](poll.active # "none" =>
            /\ poll.reads <= StepsFor(gc_block.values.r) + 1
            /\ (Returned /\ var5399 # poll.value) => poll.ret = -1)
    /\ (Polling ~> Returned)

\* A poll with a timeout of 0.1 s (N = 2) returned -1 after 3 reads.
C5_Witness ==
    /\ Returned
    /\ gc_block.values.r = Milli(100)
    /\ poll.reads = 3
    /\ poll.ret = -1
    /\ var5399 # poll.value
    /\ ~abort

\* C6: when the first read leaves var5399 equal to the target, the loop
\* returns the target at once: one transaction, no wait step, and sys.abort
\* is not touched.
C6_FirstReadMatch ==
    [][(pc = "poll" /\ poll.reads = 1 /\ var5399 = poll.value) =>
          (/\ pc' = "done"
           /\ poll'.active = "returned"
           /\ poll'.ret = poll.value
           /\ poll'.reads = 1
           /\ poll'.waits = 0
           /\ abort' = abort)]_vars

\* A poll returned its target after one read and no wait step.
C6_Witness ==
    /\ Returned
    /\ poll.reads = 1
    /\ poll.waits = 0
    /\ poll.ret = poll.value
    /\ rx.kind = "packet"

\* C7 as stated: with sys.abort set on entry the loop returns -1 without any
\* wait step, whatever the device answers.
C7_AsStated ==
    (Returned /\ poll.entry_abort) => (poll.ret = -1 /\ poll.waits = 0)

\* C7 amended: with sys.abort set on entry the loop still issues one read
\* transaction, and only one; if that read leaves var5399 equal to the
\* target it returns the target without a wait step, otherwise it performs
\* exactly one wait step and returns -1.
C7_AbortOnEntry ==
    (poll.active # "none" /\ poll.entry_abort) =>
        /\ poll.reads = 1
        /\ Returned =>
              \/ poll.ret = poll.value /\ poll.waits = 0 /\ var5399 = poll.value
              \/ poll.ret = -1 /\ poll.waits = 1 /\ var5399 # poll.value

\* A poll entered with sys.abort set returned -1 after one read and one wait
\* step, with steps of its budget left.
C7_Witness ==
    /\ Returned
    /\ poll.entry_abort
    /\ poll.ret = -1
    /\ poll.reads = 1
    /\ poll.waits = 1
    /\ poll.delay > 0

\* C8: executing M102 raises the timeout alarm whenever the poll used up its
\* step budget without a match, and raises none when the poll matched.
C8_TimeoutAlarm ==
    (pc = "done" /\ Returned) =>
        /\ (poll.delay = 0 /\ var5399 # poll.value) => Status_GCodeTimeout \in raised
        /\ poll.ret = poll.value => Status_GCodeTimeout \notin raised

\* A poll for the value 0 matched and no timeout alarm was raised.
C8_Witness ==
    /\ pc = "done" /\ Returned
    /\ poll.value = 0
    /\ poll.ret = 0
    /\ Status_GCodeTimeout \notin raised

\* C9 as stated: a response handed to on_rx_packet with its error bit set
\* leaves var5399 alone and triggers the alarm path, the alarm being queued
\* during cold start and raised directly otherwise.
C9_AsStated ==
    [][(pc = "sent" /\ pc' # "sent" /\ rx'.kind = "packet" /\ ErrorBit(rx')) =>
          /\ var5399' = var5399
          /\ IF cold_start
             THEN fg_queue' = Append(fg_queue, "mbio_raise_alarm")
             ELSE Status_ExpressionInvalidResult \in raised']_vars

\* C10: on every call of on_rx_exception, during cold start the alarm is only
\* queued as a foreground task and not raised; outside cold start the alarm
\* is raised directly and a warning is queued; var5399 is unchanged.
C10_ExceptionCallback ==
    [][(pc = "sent" /\ pc' # "sent" /\ rx' = Exception) =>
          /\ var5399' = var5399
          /\ IF cold_start
             THEN /\ fg_queue' = Append(fg_queue, "mbio_raise_alarm")
                  /\ raised' = raised
             ELSE /\ raised' = raised \cup {Status_ExpressionInvalidResult}
                  /\ fg_queue' = Append(fg_queue, "report_warning")]_vars

\* An exception during cold start: the alarm is queued, none was raised.
C10_Witness ==
    /\ rx = Exception
    /\ cold_start
    /\ raised = {}
    /\ fg_queue # <<>>
    /\ fg_queue[Len(fg_queue)] = "mbio_raise_alarm"

----------------------------------------------------------------------------
\* Properties of the frames and of the response decoding, checked under Spec.

\* A step in which the blocking send of the frame tx returns.
Received == pc = "sent" /\ pc' # "sent"

\* The 16-bit big-endian value of bytes i, i + 1 of a frame.
BigEndian(msg, i) == Adu(msg, i) * 256 + Adu(msg, i + 1)

\* C11: a response that carries the context tag and that the packet callback
\* does not take for an error leaves in var5399: the lowest bit of the data
\* byte for function 2, the data byte for function 1, the big-endian value of
\* the two data bytes for functions 3 and 4; the acknowledgement of a write
\* (5, 6) leaves var5399 as it was.
C11_Decode ==
    [][(/\ Received
        /\ rx'.kind = "packet"
        /\ rx'.context = MBIO_Command
        /\ ~ErrorBit(rx')) =>
          var5399' =
            CASE Adu(rx', 1) = 2 -> (IF Adu(rx', 3) \in {1, 3} THEN 1 ELSE 0)
              [] Adu(rx', 1) = 1 -> Adu(rx', 3)
              [] Adu(rx', 1) \in {3, 4} -> BigEndian(rx', 3)
              [] OTHER -> var5399]_vars

\* A register read was answered with the data bytes 0x00 0x2A and var5399
\* is 42.
C11_Witness ==
    /\ pc = "done"
    /\ rx.kind = "packet"
    /\ ~ErrorBit(rx)
    /\ Adu(rx, 1) = 3
    /\ Adu(rx, 3) = 0
    /\ Adu(rx, 4) = 42
    /\ var5399 = 42

\* The function code the validated block asks for.
FunctionA == Trunc(parsed.values.e)

\* The Q value of the block as parsed (0 when Q is absent).
SuppliedQ == Trunc(parsed.values.q)

\* A frame of the M101 block is with the transport or was answered.
DispatchedA == tx # NoMsg /\ parsed.user_mcode = UserMCode_Generic1

\* C12: the value field of a write-coil frame is 0x0000 when Q is 0 and
\* 0xFF00 for every other Q of [1,65535]; the value field of a
\* write-register frame is Q.
C12_WriteValue ==
    DispatchedA =>
        /\ Adu(tx, 1) = 5 =>
              BigEndian(tx, 4) = (IF SuppliedQ = 0 THEN 0 ELSE 65280)
        /\ Adu(tx, 1) = 6 => BigEndian(tx, 4) = SuppliedQ

\* A write-coil frame for Q = 2 carries FF 00.
C12_Witness ==
    /\ DispatchedA
    /\ FunctionA = 5
    /\ SuppliedQ = 2
    /\ Adu(tx, 1) = 5
    /\ Adu(tx, 4) = 255
    /\ Adu(tx, 5) = 0

\* C13: every frame with function code 2, 3 or 4, the reads of the polling
\* loop included, has the count 1 in bytes 4 and 5, whatever Q was supplied.
C13_CountOne ==
    (tx # NoMsg /\ Adu(tx, 1) \in {2, 3, 4}) =>
        (Adu(tx, 4) = 0 /\ Adu(tx, 5) = 1)

\* A read-holding-registers frame for Q = 65535 carries the count 1.
C13_Witness ==
    /\ DispatchedA
    /\ SuppliedQ = 65535
    /\ Adu(tx, 1) = 3
    /\ BigEndian(tx, 4) = 1

\* C14: the read-coils frame of M101 asks for exactly one coil at the
\* register index, for every validated Q, supplied or absent.
C14_AsStated ==
    (DispatchedA /\ Adu(tx, 1) = 1) =>
        /\ BigEndian(tx, 2) = Trunc(parsed.values.p) - 1
        /\ BigEndian(tx, 4) = 1

\* C15: once mbio_init has run on a host that had a handler set installed,
\* that set is captured in user_mcode, and an M-code other than M101 and
\* M102 is forwarded to it by mbio_check, mbio_validate and mbio_execute.
C15_AsStated ==
    pc # "boot" =>
        /\ hal_user_mcode = MbioHandlers
        /\ user_mcode = PrevHandlers
        /\ mbio_check(UserMCode_Other) = PrevCheck(UserMCode_Other)
        /\ mbio_validate(NoBlock) = PrevValidate(NoBlock)
        /\ ExecuteForwards(NoBlock)
        /\ (pc = "done" /\ parsed.user_mcode = UserMCode_Other) =>
              mcode_check = PrevCheck(UserMCode_Other)

\* C16: every frame dispatched for a validated M101 or M102 has the device
\* address D in byte 0 and, big-endian in bytes 2 and 3, the register index
\* P - 1, which lies in [0,9998].
C16_Addressing ==
    tx # NoMsg =>
        /\ Adu(tx, 0) = Trunc(parsed.values.d)
        /\ BigEndian(tx, 2) = Trunc(parsed.values.p) - 1
        /\ BigEndian(tx, 2) \in 0..9998

\* A frame for D = 200, P = 9999 carries C8 in byte 0 and 27 0E in bytes 2, 3.
C16_Witness ==
    /\ tx # NoMsg
    /\ Trunc(parsed.values.d) = 200
    /\ Trunc(parsed.values.p) = 9999
    /\ Adu(tx, 0) = 200
    /\ Adu(tx, 2) = 39
    /\ Adu(tx, 3) = 14

\* C17: the polling loop returns its target only if a read of this same
\* invocation was answered by a response whose data bit is the target; a
\* value left in var5399 by an earlier transaction never makes it match, not
\* even when the loop's own read ended in the exception callback.
C17_AsStated ==
    (Returned /\ poll.ret = poll.value) => poll.fresh

\* The value a response to a read holds for var5399.
Decoded(msg) ==
    CASE Adu(msg, 1) = 2 -> Adu(msg, 3) % 2
      [] Adu(msg, 1) = 1 -> Adu(msg, 3)
      [] OTHER -> BigEndian(msg, 3)

\* C18: for every device address of [0,247], the response to a read
\* (functions 1 to 4) that echoes the address is decoded into var5399; no
\* valid address makes the packet callback take the response for an error.
C18_AsStated ==
    [][(/\ Received
        /\ rx'.kind = "packet"
        /\ Adu(rx', 0) \in 0..247
        /\ Adu(rx', 1) \in 1..4) =>
          /\ var5399' = Decoded(rx')
          /\ messages' = messages]_vars

\* The polling loop returned because its steps ran out: no match, no abort.
TimedOut == Returned /\ poll.ret = -1 /\ ~abort

\* C19: in a polling loop that times out, wait steps occur only between two
\* reads: the last read, finding no match with no step left, is followed by
\* the return and not by a wait step.
C19_AsStated ==
    TimedOut => poll.waits = poll.reads - 1

\* C20: once sys.abort is set during a polling loop and stays set, the loop
\* issues at most one more read and performs at most one more wait step
\* before it returns, and it returns -1 unless var5399 is the target.
C20_AbortDuringPoll ==
    poll.active # "none" =>
        /\ poll.ab_reads <= 1
        /\ poll.ab_waits <= 1
        /\ (Returned /\ abort /\ var5399 # poll.value) => poll.ret = -1

\* sys.abort was set while a read was in flight: the loop performed one more
\* wait step, no further read, and returned -1 with steps left.
C20_Witness ==
    /\ Returned
    /\ ~poll.entry_abort
    /\ abort
    /\ poll.ab_waits = 1
    /\ poll.ab_reads = 0
    /\ poll.delay > 0
    /\ poll.ret = -1

----------------------------------------------------------------------------
\* The parameter-word flags after mbio_validate, checked under SpecV.

\* The words mbio_validate claims for the block's M-code.
ClaimedWords ==
    IF parsed.user_mcode = UserMCode_Generic1
    THEN {"d", "e", "p", "q"}
    ELSE {"d", "p", "q", "r"}

\* The flags of the claimed words are off, the others are as parsed.
WordsClaimed ==
    gc_block.words =
        [w \in Words |-> IF w \in ClaimedWords THEN FALSE ELSE parsed.words[w]]

WordsUnchanged == gc_block.words = parsed.words

OursValidated ==
    /\ Validated
    /\ parsed.user_mcode \in {UserMCode_Generic1, UserMCode_Generic2}

\* C21 as stated: mbio_validate claims the parameter words (D, E, P, Q for
\* M101; D, P, Q, R for M102) exactly when validation succeeds; on a format
\* error and on a range error the flags are left as they were.
C21_AsStated ==
    OursValidated =>
        IF state = Status_OK THEN WordsClaimed ELSE WordsUnchanged

\* C21: mbio_validate claims the parameter words (D, E, P, Q for M101;
\* D, P, Q, R for M102) exactly when the structural checks pass, that is
\* when it returns OK and also when it returns the range error; on a format
\* error the flags are left as they were.
C21_ClaimWords ==
    OursValidated =>
        /\ state \in {Status_OK, Status_GcodeValueOutOfRange, Status_BadNumberFormat}
        /\ state \in {Status_OK, Status_GcodeValueOutOfRange} => WordsClaimed
        /\ state = Status_BadNumberFormat => WordsUnchanged

\* An M101 block with D, E, P, Q supplied was rejected with the range error
\* and its four flags are off.
C21_Witness ==
    /\ OursValidated
    /\ parsed.user_mcode = UserMCode_Generic1
    /\ state = Status_GcodeValueOutOfRange
    /\ \A w \in {"d", "e", "p", "q"} : parsed.words[w] /\ ~gc_block.words[w]

====
